---- MODULE Spec2Model ----
(***************************************************************************)
(* Model of app.py: the vertical-profile viewer.  One run of the script is *)
(* a sequence of steps (load, station table, station selection, sheet      *)
(* resolution, period filter, plot); the spreadsheet is the input.         *)
(*                                                                         *)
(* A DataFrame is a sequence of rows (records); every row keeps the index  *)
(* label `idx` it had in the spreadsheet, as pandas does.  Numeric cells   *)
(* are integers (tenths where the text speaks of 10.1, 5.2, ...), a null   *)
(* numeric cell is NaN and a null text cell is None.                       *)
(***************************************************************************)
EXTENDS Integers, Sequences, FiniteSets, TLC

\* Largest number of rows of the spreadsheet.
MaxRows == 3

\* A null numeric cell (pandas NaN); every real value of the model is >= 0.
NaN == -1
\* A null text cell.
None == "None"

Range(s) == {s[i] : i \in 1..Len(s)}

RECURSIVE Unique(_)
\* Series.unique(): the distinct values in order of first appearance.
Unique(s) ==
    IF s = <<>> THEN <<>>
    ELSE LET rest == Unique(SubSeq(s, 1, Len(s) - 1))
             last == s[Len(s)]
         IN  IF last \in Range(rest) THEN rest ELSE Append(rest, last)

Column(s, f) == [i \in 1..Len(s) |-> s[i][f]]

RECURSIVE SortByRank(_, _)
\* The elements of set S as a sequence in increasing rank (rank is injective on S).
SortByRank(S, rank) ==
    IF S = {} THEN <<>>
    ELSE LET m == CHOOSE x \in S : \A y \in S : rank[x] <= rank[y]
         IN  <<m>> \o SortByRank(S \ {m}, rank)

RECURSIVE SumSeq(_)
SumSeq(s) == IF s = <<>> THEN 0 ELSE Head(s) + SumSeq(Tail(s))

(***************************************************************************)
(* The spreadsheet.  A StationNewName cell is a float ("f:"), a text       *)
(* ("s:") or null; astype(str) turns both the float 2.75 and the text      *)
(* "2.75" into the string "2.75".                                          *)
(***************************************************************************)
StationCells == {"f:2.75", "s:2.75", "s:2.750", "s:21.25", "s:A12", "s:B7"}

AsStr(cell) ==
    CASE cell = "f:2.75"  -> "2.75"
      [] cell = "s:2.75"  -> "2.75"
      [] cell = "s:2.750" -> "2.750"
      [] cell = "s:21.25" -> "21.25"
      [] cell = "s:A12"   -> "A12"
      [] cell = "s:B7"    -> "B7"

\* Lexicographic order of the station strings (groupby sorts its keys).
StationRank ==
    [n \in {AsStr(c) : c \in StationCells} |->
        CASE n = "2.75" -> 1 [] n = "2.750" -> 2 [] n = "21.25" -> 3
          [] n = "A12" -> 4 [] n = "B7" -> 5]

ExcludedStations == {"2.75", "21.25", "21.75"}

BaseRow ==
    [StationNewName |-> "s:A12", Latitude |-> 10, Longitude |-> 20,
     FullCycle |-> NaN, WaterPeriod |-> "LW", DayPeriod |-> "AM",
     SheetID |-> 1, Profondeur |-> 1, Temp |-> 101,
     Thermocline |-> NaN, MaxChloro |-> NaN]

\* Rows that exercise the loader: missing cells and excluded stations.
LoadRows ==
    { BaseRow,
      [BaseRow EXCEPT !.Latitude = NaN],
      [BaseRow EXCEPT !.Longitude = NaN],
      [BaseRow EXCEPT !.StationNewName = None],
      [BaseRow EXCEPT !.StationNewName = "f:2.75"],
      [BaseRow EXCEPT !.StationNewName = "s:2.750"] }

\* Rows that exercise the station table: two stations and their FullCycle cells.
StationRows ==
    { [BaseRow EXCEPT !.StationNewName = k[1], !.FullCycle = k[2],
                      !.Latitude = IF k[2] = 1 THEN 30 ELSE 10]
        : k \in { <<"s:A12", NaN>>, <<"s:A12", 0>>, <<"s:A12", 1>>,
                  <<"s:B7", NaN>>, <<"s:B7", 1>> } }

\* Rows that exercise sheet resolution: periods and sheets of one station.
SheetRows ==
    { [BaseRow EXCEPT !.WaterPeriod = k[1], !.DayPeriod = k[2], !.SheetID = k[3],
                      !.Profondeur = k[3]]
        : k \in { <<"LW", "AM", 1>>, <<"LW", "AM", 2>>, <<"LW", "PM", 1>>,
                  <<"LW", "PM", 2>>, <<"HW", "AM", 2>>, <<None, "AM", 1>> } }

\* Rows that exercise the curve: depths, parameter values and annotations of
\* one (station, period, sheet) group.
CurveRows ==
    { [BaseRow EXCEPT !.Profondeur = k[1], !.Temp = k[2], !.Thermocline = k[3],
                      !.MaxChloro = IF k[2] = 123 THEN 30 ELSE NaN]
        : k \in { <<1, 101, NaN>>, <<1, 123, 52>>, <<2, 101, 52>>,
                  <<2, 123, NaN>>, <<2, 101, NaN>> } }

SeqsUpTo(U, n) == UNION {[1..k -> U] : k \in 0..n}

\* The file as read by read_excel: row i gets index label i.
Sheet(s) ==
    [i \in 1..Len(s) |->
        [idx |-> i, StationNewName |-> s[i].StationNewName,
         Latitude |-> s[i].Latitude, Longitude |-> s[i].Longitude,
         FullCycle |-> s[i].FullCycle, WaterPeriod |-> s[i].WaterPeriod,
         DayPeriod |-> s[i].DayPeriod, SheetID |-> s[i].SheetID,
         Profondeur |-> s[i].Profondeur, Temp |-> s[i].Temp,
         Thermocline |-> s[i].Thermocline, MaxChloro |-> s[i].MaxChloro]]

Spreadsheets ==
    {Sheet(s) : s \in SeqsUpTo(LoadRows, MaxRows) \cup SeqsUpTo(StationRows, MaxRows)
                   \cup SeqsUpTo(SheetRows, MaxRows) \cup SeqsUpTo(CurveRows, MaxRows)}

(***************************************************************************)
(* load_data                                                               *)
(***************************************************************************)
\* A loader that forgets Longitude in the dropna subset.
DropNaNoLongitude(rows) ==
    LET Complete(r) == r.Latitude # NaN /\ r.StationNewName # None
    IN  SelectSeq(rows, Complete)

\* dropna(subset=["Latitude", "Longitude", "StationNewName"])
DropNa(rows) ==
    LET Complete(r) == r.Latitude # NaN /\ r.Longitude # NaN /\ r.StationNewName # None
    IN  SelectSeq(rows, Complete)

\* df["StationNewName"] = df["StationNewName"].astype(str)
AsTypeStr(rows) ==
    [i \in 1..Len(rows) |-> [rows[i] EXCEPT !.StationNewName = AsStr(@)]]

\* df[~df["StationNewName"].isin([...])]
DropExcluded(rows) ==
    LET Kept(r) == r.StationNewName \notin ExcludedStations
    IN  SelectSeq(rows, Kept)

\* A loader that applies the exclusion before the cast to str: a float cell
\* 2.75 is then compared with the string "2.75" and never matches.
load_data_exclude_before_cast(sheet) ==
    LET Kept(r) == ~(r.StationNewName \in {"s:2.75", "s:21.25", "s:21.75"})
    IN  AsTypeStr(SelectSeq(DropNa(sheet), Kept))

load_data(sheet) == DropExcluded(AsTypeStr(DropNa(sheet)))

(***************************************************************************)
(* The station table                                                       *)
(***************************************************************************)
\* groupby("StationNewName")[["Latitude","Longitude"]].mean().reset_index():
\* one row per station, keys sorted; a mean is kept as <<sum, count>>.
GroupMean(d) ==
    LET names == SortByRank(Range(Column(d, "StationNewName")), StationRank)
        Of(n) == LET Is(r) == r.StationNewName = n IN SelectSeq(d, Is)
    IN  [i \in 1..Len(names) |->
            [StationNewName |-> names[i],
             Latitude  |-> <<SumSeq(Column(Of(names[i]), "Latitude")), Len(Of(names[i]))>>,
             Longitude |-> <<SumSeq(Column(Of(names[i]), "Longitude")), Len(Of(names[i]))>>]]

\* df[["StationNewName", "FullCycle"]].drop_duplicates()
StationFullCycle(d) ==
    Unique([i \in 1..Len(d) |-> <<d[i].StationNewName, d[i].FullCycle>>])

RECURSIVE MergeLeft(_, _)
\* left.merge(right, on="StationNewName", how="left"): one output row for
\* every right row with the left row's key.
MergeLeft(left, right) ==
    IF left = <<>> THEN <<>>
    ELSE LET l == Head(left)
             m == SelectSeq(right, LAMBDA p : p[1] = l.StationNewName)
             out == [j \in 1..Len(m) |->
                        [StationNewName |-> l.StationNewName, Latitude |-> l.Latitude,
                         Longitude |-> l.Longitude, FullCycle |-> m[j][2]]]
         IN  out \o MergeLeft(Tail(left), right)

\* station_coords["FullCycle"].fillna(0)
FillNa(t) == [i \in 1..Len(t) |-> [t[i] EXCEPT !.FullCycle = IF @ = NaN THEN 0 ELSE @]]

StationCoords(d) == FillNa(MergeLeft(GroupMean(d), StationFullCycle(d)))

(***************************************************************************)
(* Widgets                                                                 *)
(***************************************************************************)
parameter_options == <<"Temp", "pH", "ODO%", "ODO Conc", "Turbidity">>
period_options == <<"All", "LW", "RW", "HW", "FW">>
time_options == <<"All", "AM", "PM">>

\* The parameter columns the spreadsheets of the model carry.
ParameterColumns == {"Temp"}

(***************************************************************************)
(* Sheet resolution: one sheet per (water period, day period)              *)
(***************************************************************************)
available_periods == <<"LW", "RW", "HW", "FW">>
available_day == <<"AM", "PM">>

\* The pairs in loop order: for wp in available_periods: for dp in available_day.
PairAt(k) == <<available_periods[((k - 1) \div Len(available_day)) + 1],
               available_day[((k - 1) % Len(available_day)) + 1]>>
NPairs == Len(available_periods) * Len(available_day)

\* station_df = df[df["StationNewName"] == selected_station]
StationDf(d, station) ==
    LET Is(r) == r.StationNewName = station IN SelectSeq(d, Is)

\* A subset taken on the water period alone.
SubsetWaterOnly(sdf, wp, dp) ==
    LET Is(r) == r.WaterPeriod = wp IN SelectSeq(sdf, Is)

\* subset = station_df[(WaterPeriod == wp) & (DayPeriod == dp)]
Subset(sdf, wp, dp) ==
    LET Is(r) == r.WaterPeriod = wp /\ r.DayPeriod = dp IN SelectSeq(sdf, Is)

\* A resolver that takes the smallest sheet id instead of the first one.
ChosenSheetMin(subset) ==
    CHOOSE s \in Range(Column(subset, "SheetID")) :
        \A u \in Range(Column(subset, "SheetID")) : s <= u

\* chosen_sheetid = subset["SheetID"].unique()[0]
ChosenSheet(subset) == Unique(Column(subset, "SheetID"))[1]

\* A resolver that appends the whole subset, every sheet of it.
SubsetSheetAll(subset) == subset

\* subset_sheet = subset[subset["SheetID"] == chosen_sheetid]
SubsetSheet(subset) ==
    LET Is(r) == r.SheetID = ChosenSheet(subset) IN SelectSeq(subset, Is)

RECURSIVE CombinationsFrom(_, _)
\* The list `combinations` built by the pairs k..NPairs.
CombinationsFrom(sdf, k) ==
    IF k > NPairs THEN <<>>
    ELSE LET subset == Subset(sdf, PairAt(k)[1], PairAt(k)[2])
         IN  (IF subset # <<>> THEN <<SubsetSheet(subset)>> ELSE <<>>)
             \o CombinationsFrom(sdf, k + 1)

Combinations(sdf) == CombinationsFrom(sdf, 1)

RECURSIVE Flatten(_)
Flatten(ss) == IF ss = <<>> THEN <<>> ELSE Head(ss) \o Flatten(Tail(ss))

\* pd.concat(combinations) if combinations else pd.DataFrame(): the empty
\* DataFrame() has no columns at all.
Concat(combinations) ==
    IF combinations # <<>>
    THEN [columns |-> TRUE, rows |-> Flatten(combinations)]
    ELSE [columns |-> FALSE, rows |-> <<>>]

\* A frame filtered on a column it does not have raises KeyError.
FilterRaises(frame, water, day) ==
    ~frame.columns /\ (water # "All" \/ day # "All")

\* Filters written as if / elif: the day filter is skipped when a water
\* period is selected.
ApplyFiltersElif(frame, water, day) ==
    LET ByWater(r) == r.WaterPeriod = water
        ByDay(r) == r.DayPeriod = day
    IN  [columns |-> frame.columns,
         rows |-> IF water # "All" THEN SelectSeq(frame.rows, ByWater)
                  ELSE IF day # "All" THEN SelectSeq(frame.rows, ByDay)
                  ELSE frame.rows]

\* The 'All' or specific filters.
ApplyFilters(frame, water, day) ==
    LET ByWater(r) == r.WaterPeriod = water
        ByDay(r) == r.DayPeriod = day
        f1 == IF water # "All" THEN SelectSeq(frame.rows, ByWater) ELSE frame.rows
        f2 == IF day # "All" THEN SelectSeq(f1, ByDay) ELSE f1
    IN  [columns |-> frame.columns, rows |-> f2]

(***************************************************************************)
(* Curves                                                                  *)
(***************************************************************************)
\* Sorted order of the groupby keys (WaterPeriod, DayPeriod, SheetID).
KeyRank(keys) ==
    LET W(w) == CASE w = "FW" -> 0 [] w = "HW" -> 1 [] w = "LW" -> 2 [] w = "RW" -> 3
        D(d) == CASE d = "AM" -> 0 [] d = "PM" -> 1
    IN  [k \in keys |-> (W(k[1]) * 2 + D(k[2])) * 100 + k[3]]

\* The groups of groupby(["WaterPeriod", "DayPeriod", "SheetID"]), keys sorted.
GroupKeys(rows) ==
    LET keys == {<<r.WaterPeriod, r.DayPeriod, r.SheetID>> : r \in Range(rows)}
    IN  SortByRank(keys, KeyRank(keys))

Group(rows, key) ==
    LET Is(r) == <<r.WaterPeriod, r.DayPeriod, r.SheetID>> = key IN SelectSeq(rows, Is)

\* data.sort_values("Profondeur"): the default kind is quicksort, which is
\* not stable, so rows of equal depth may come out in any order.
SortValues(data) ==
    LET n == Len(data)
        perms == {p \in [1..n -> 1..n] : \A i, j \in 1..n : i # j => p[i] # p[j]}
    IN  { [i \in 1..n |-> data[p[i]]] :
            p \in {q \in perms :
                     \A i \in 1..(n - 1) : data[q[i]].Profondeur <= data[q[i + 1]].Profondeur} }

\* Series.min() / Series.max() skip nulls.
SeriesMin(vals) ==
    LET S == Range(vals) \ {NaN}
    IN  IF S = {} THEN NaN ELSE CHOOSE m \in S : \A v \in S : m <= v
SeriesMax(vals) ==
    LET S == Range(vals) \ {NaN}
    IN  IF S = {} THEN NaN ELSE CHOOSE m \in S : \A v \in S : m >= v

\* The value an annotation is drawn at: data[column].iloc[0].
AnnotationValue(data, column) == data[1][column]

\* One annotation trace, or none when the value is null.
Annotation(data, kind, column, param, sid) ==
    LET v == AnnotationValue(data, column)
    IN  IF v # NaN
        THEN << [kind |-> kind, name |-> <<sid>>,
                 x |-> <<SeriesMin(Column(data, param)), SeriesMax(Column(data, param))>>,
                 y |-> <<v, v>>, index |-> <<>>] >>
        ELSE <<>>

\* The traces one group adds to the figure; data is the sorted group.  x and y
\* are Series and carry the rows' index labels.
Traces(key, data, param, thermo, chloro) ==
    << [kind |-> "curve", name |-> key, x |-> Column(data, param),
        y |-> Column(data, "Profondeur"), index |-> Column(data, "idx")] >>
    \o (IF thermo THEN Annotation(data, "Thermocline", "Thermocline", param, key[3]) ELSE <<>>)
    \o (IF chloro THEN Annotation(data, "Max Chloro", "MaxChloro", param, key[3]) ELSE <<>>)

RECURSIVE FiguresOver(_, _, _, _, _)
\* The figures the loop over the groups can produce.
FiguresOver(rows, keys, param, thermo, chloro) ==
    IF keys = <<>> THEN {<<>>}
    ELSE { t \o rest :
             t \in {Traces(Head(keys), s, param, thermo, chloro) :
                       s \in SortValues(Group(rows, Head(keys)))},
             rest \in FiguresOver(rows, Tail(keys), param, thermo, chloro) }

Figures(rows, param, thermo, chloro) ==
    FiguresOver(rows, GroupKeys(rows), param, thermo, chloro)

VARIABLES
    file,                 \* the spreadsheet on disk
    cache,                \* st.cache_data: <<>> or <<the loaded frame>>
    df,                   \* the loaded frame
    station_coords,       \* the station table
    selected_station,
    selected_water,
    selected_day,
    parameter,
    show_thermocline,
    show_max_chloro,
    filtered_combined_df, \* [columns, rows]
    fig,                  \* the traces of the figure
    pc,                   \* position in the script
    outcome               \* how the run ended

vars == <<file, cache, df, station_coords, selected_station, selected_water,
          selected_day, parameter, show_thermocline, show_max_chloro,
          filtered_combined_df, fig, pc, outcome>>

widgets == <<selected_water, selected_day, parameter, show_thermocline, show_max_chloro>>

fullcycle_stations == SelectSeq(station_coords, LAMBDA s : s.FullCycle = 1)
normal_stations == SelectSeq(station_coords, LAMBDA s : s.FullCycle = 0)

\* The options of the station selectbox.
StationOptions == Unique(Column(station_coords, "StationNewName"))

station_df == StationDf(df, selected_station)

NoFrame == [columns |-> FALSE, rows |-> <<>>]

Init ==
    /\ file \in Spreadsheets
    /\ cache = <<>>
    /\ df = <<>>
    /\ station_coords = <<>>
    /\ selected_station = None
    /\ selected_water = None
    /\ selected_day = None
    /\ parameter = None
    /\ show_thermocline = FALSE
    /\ show_max_chloro = FALSE
    /\ filtered_combined_df = NoFrame
    /\ fig = <<>>
    /\ pc = "load"
    /\ outcome = "running"

\* df = load_data(), memoised by st.cache_data.
LoadData ==
    /\ pc = "load"
    /\ df' = IF cache = <<>> THEN load_data(file) ELSE cache[1]
    /\ cache' = <<df'>>
    /\ pc' = "stations"
    /\ UNCHANGED <<file, station_coords, selected_station, widgets,
                   filtered_combined_df, fig, outcome>>

BuildStationCoords ==
    /\ pc = "stations"
    /\ station_coords' = StationCoords(df)
    /\ pc' = "select"
    /\ UNCHANGED <<file, cache, df, selected_station, widgets,
                   filtered_combined_df, fig, outcome>>

\* st.selectbox over the station names, then .iloc[0] of the selected rows
\* (IndexError when there is no station at all).
SelectStation ==
    /\ pc = "select"
    /\ IF StationOptions = <<>>
       THEN /\ selected_station' = None
            /\ outcome' = "IndexError"
            /\ pc' = "done"
       ELSE /\ selected_station' \in Range(StationOptions)
            /\ outcome' = outcome
            /\ pc' = "resolve"
    /\ UNCHANGED <<file, cache, df, station_coords, widgets, filtered_combined_df, fig>>

\* The combinations loop and the concat.
Resolve ==
    /\ pc = "resolve"
    /\ filtered_combined_df' = Concat(Combinations(station_df))
    /\ pc' = "filter"
    /\ UNCHANGED <<file, cache, df, station_coords, selected_station, widgets, fig, outcome>>

\* The period filters, for the periods the user has chosen in the two
\* selectboxes.
Filter ==
    /\ pc = "filter"
    /\ \E w \in Range(period_options), d \in Range(time_options) :
          /\ selected_water' = w
          /\ selected_day' = d
          /\ IF FilterRaises(filtered_combined_df, w, d)
             THEN /\ outcome' = "KeyError"
                  /\ pc' = "done"
                  /\ UNCHANGED filtered_combined_df
             ELSE /\ filtered_combined_df' = ApplyFilters(filtered_combined_df, w, d)
                  /\ pc' = "plot"
                  /\ UNCHANGED outcome
    /\ UNCHANGED <<file, cache, df, station_coords, selected_station, parameter,
                   show_thermocline, show_max_chloro, fig>>

\* The empty check and the loop that draws one curve per group, for the
\* parameter and the checkboxes the user has chosen.
Plot ==
    /\ pc = "plot"
    /\ \E p \in Range(parameter_options) \cap ParameterColumns,
          thermo \in BOOLEAN, chloro \in BOOLEAN :
          /\ parameter' = p
          /\ show_thermocline' = thermo
          /\ show_max_chloro' = chloro
          /\ IF filtered_combined_df.rows = <<>>
             THEN /\ outcome' = "warning"
                  /\ fig' = <<>>
             ELSE /\ outcome' = "plotted"
                  /\ fig' \in Figures(filtered_combined_df.rows, p, thermo, chloro)
    /\ pc' = "done"
    /\ UNCHANGED <<file, cache, df, station_coords, selected_station, selected_water,
                   selected_day, filtered_combined_df>>

\* Streamlit runs the script again on the next interaction; the cached frame
\* survives.
Rerun ==
    /\ pc = "done"
    /\ pc' = "load"
    /\ df' = <<>>
    /\ station_coords' = <<>>
    /\ selected_station' = None
    /\ selected_water' = None
    /\ selected_day' = None
    /\ parameter' = None
    /\ show_thermocline' = FALSE
    /\ show_max_chloro' = FALSE
    /\ filtered_combined_df' = NoFrame
    /\ fig' = <<>>
    /\ outcome' = "running"
    /\ UNCHANGED <<file, cache>>

Next ==
    \/ LoadData
    \/ BuildStationCoords
    \/ SelectStation
    \/ Resolve
    \/ Filter
    \/ Plot
    \/ Rerun

Spec == Init /\ [][Next]_vars

(***************************************************************************)
(* Properties                                                              *)
(***************************************************************************)
Idx(rows) == {r.idx : r \in Range(rows)}

\* The curve traces of the figure, in order.
Curves == SelectSeq(fig, LAMBDA t : t.kind = "curve")

\* The row of the loaded frame with index label i.
RowAt(i) == CHOOSE r \in Range(df) : r.idx = i

ConcretePairs == {PairAt(k) : k \in 1..NPairs}

\* The rows of the selected station recorded for the pair (w, d), in dataset order.
Matching(w, d) ==
    SelectSeq(station_df, LAMBDA r : r.WaterPeriod = w /\ r.DayPeriod = d)

\* The pair is one the current selection shows.
Selected(pair) ==
    /\ selected_water \in {"All", pair[1]}
    /\ selected_day \in {"All", pair[2]}

Plotted == pc = "done" /\ outcome = "plotted"

\* C1: after sheet resolution, for every pair with matching rows the rows kept
\* for that pair are exactly the matching rows that carry the SheetID of the
\* earliest matching row, in dataset order; all other matching rows are gone.
C1_FirstSheetInRowOrder ==
    pc = "filter" =>
        \A pair \in ConcretePairs :
            LET m == Matching(pair[1], pair[2])
                kept == SelectSeq(filtered_combined_df.rows,
                                  LAMBDA r : r.WaterPeriod = pair[1] /\ r.DayPeriod = pair[2])
            IN  /\ m = <<>> => kept = <<>>
                /\ m # <<>> => kept = SelectSeq(m, LAMBDA r : r.SheetID = m[1].SheetID)

\* A pair with two sheets whose earliest row carries the larger id, so that a
\* row of the smaller id was discarded.
C1_Witness ==
    /\ pc = "filter"
    /\ \E pair \in ConcretePairs :
          LET m == Matching(pair[1], pair[2])
          IN  /\ Len(m) >= 2
              /\ \E i \in 2..Len(m) : m[i].SheetID < m[1].SheetID
              /\ \E r \in Range(filtered_combined_df.rows) : r.SheetID = m[1].SheetID
              /\ Len(filtered_combined_df.rows) < Len(station_df)

\* C2: the station table holds exactly one record per distinct station
\* identifier of the loaded dataset.
C2_OneRecordPerStation ==
    pc \notin {"load", "stations"} =>
        Len(station_coords) = Cardinality({r.StationNewName : r \in Range(df)})

\* The first non-null value of a column in a drawn group, NaN if there is none.
FirstNonNull(rows, column) ==
    LET nn == SelectSeq(rows, LAMBDA r : r[column] # NaN)
    IN  IF nn = <<>> THEN NaN ELSE nn[1][column]

\* The annotation traces of one kind that follow curve number k of the figure.
AnnotationsOf(c, kind) ==
    SelectSeq(fig, LAMBDA t : t.kind = kind /\ t.name = <<c.name[3]>>)

AnnotationAsSpecified(c, kind, column) ==
    LET rows == [i \in 1..Len(c.index) |-> RowAt(c.index[i])]
        v == FirstNonNull(rows, column)
        lines == AnnotationsOf(c, kind)
    IN  IF v = NaN THEN lines = <<>>
        ELSE /\ Len(lines) = 1
             /\ lines[1].y = <<v, v>>
             /\ lines[1].x = <<SeriesMin(c.x), SeriesMax(c.x)>>

\* C3: each enabled annotation of a drawn group is drawn at the first
\* non-null value of its column among the group's rows, from the smallest to
\* the largest parameter value, and is omitted only when every value is null.
C3_FirstNonNullAnnotation ==
    Plotted =>
        \A k \in 1..Len(Curves) :
            /\ show_thermocline => AnnotationAsSpecified(Curves[k], "Thermocline", "Thermocline")
            /\ show_max_chloro => AnnotationAsSpecified(Curves[k], "Max Chloro", "MaxChloro")

\* Some row of the selected station matches the selected periods.
SomeRowMatches == \E pair \in ConcretePairs : Selected(pair) /\ Matching(pair[1], pair[2]) # <<>>

\* C4: when no row of the selected station matches the selected periods the
\* run ends in the "no data" warning with no curve, never in an error.
C4_NoDataNotError ==
    (pc = "done" /\ selected_station # None /\ ~SomeRowMatches) =>
        (outcome = "warning" /\ fig = <<>>)

\* C5: every curve holds rows of exactly one SheetID and no two curves share
\* a (water period, day period) pair.
C5_OneSheetPerCurve ==
    Plotted =>
        /\ \A k \in 1..Len(Curves) :
              {RowAt(i).SheetID : i \in Range(Curves[k].index)} = {Curves[k].name[3]}
        /\ \A j, k \in 1..Len(Curves) :
              (Curves[j].name[1] = Curves[k].name[1] /\ Curves[j].name[2] = Curves[k].name[2])
                  => j = k

\* A plot of a station that has two sheets for one pair.
C5_Witness ==
    /\ Plotted
    /\ \E pair \in ConcretePairs :
          Cardinality({r.SheetID : r \in Range(Matching(pair[1], pair[2]))}) >= 2
    /\ Len(Curves) >= 1

\* C6: every curve is in ascending depth and rows of equal depth keep their
\* relative order from the dataset.
C6_StableDepthOrder ==
    Plotted =>
        \A k \in 1..Len(Curves) :
            \A i, j \in 1..Len(Curves[k].y) :
                i < j => /\ Curves[k].y[i] <= Curves[k].y[j]
                         /\ Curves[k].y[i] = Curves[k].y[j]
                                => Curves[k].index[i] < Curves[k].index[j]

\* C7: with "All" for the water period or the day period, every concrete pair
\* the selection shows is resolved from its own rows alone: no curve when it
\* has no row, else exactly one curve, of the sheet of its earliest row, made
\* of that pair's rows of that sheet; so there are at most eight curves.
C7_ResolvedPerConcretePair ==
    (Plotted /\ (selected_water = "All" \/ selected_day = "All")) =>
        /\ Len(Curves) <= NPairs
        /\ \A k \in 1..Len(Curves) :
              /\ <<Curves[k].name[1], Curves[k].name[2]>> \in ConcretePairs
              /\ \A i \in Range(Curves[k].index) :
                    /\ RowAt(i).WaterPeriod = Curves[k].name[1]
                    /\ RowAt(i).DayPeriod = Curves[k].name[2]
        /\ \A pair \in {q \in ConcretePairs : Selected(q)} :
              LET m == Matching(pair[1], pair[2])
                  cs == {k \in 1..Len(Curves) :
                            <<Curves[k].name[1], Curves[k].name[2]>> = pair}
              IN  IF m = <<>> THEN cs = {}
                  ELSE /\ Cardinality(cs) = 1
                       /\ \A k \in cs :
                             /\ Curves[k].name[3] = m[1].SheetID
                             /\ Len(Curves[k].index) =
                                   Cardinality({r \in Range(m) : r.SheetID = m[1].SheetID})
                             /\ Range(Curves[k].index) =
                                   {r.idx : r \in {x \in Range(m) : x.SheetID = m[1].SheetID}}

\* An "All" view with two curves, one of a pair that has two sheets.
C7_Witness ==
    /\ Plotted
    /\ selected_water = "All"
    /\ Len(Curves) >= 2
    /\ \E pair \in ConcretePairs :
          Cardinality({r.SheetID : r \in Range(Matching(pair[1], pair[2]))}) >= 2

IsComplete(r) == r.Latitude # NaN /\ r.Longitude # NaN /\ r.StationNewName # None

\* C8: no excluded station string is in the loaded dataset, the station table
\* or the selectbox, and the deny-list removes no other station: every
\* complete row whose identifier string is not excluded is loaded.
C8_ExcludedStationsNeverShown ==
    /\ \A r \in Range(df) : r.StationNewName \notin ExcludedStations
    /\ \A s \in Range(station_coords) : s.StationNewName \notin ExcludedStations
    /\ Range(StationOptions) \cap ExcludedStations = {}
    /\ selected_station \notin ExcludedStations
    /\ pc # "load" =>
          \A r \in Range(file) :
              (IsComplete(r) /\ AsStr(r.StationNewName) \notin ExcludedStations)
                  => \E l \in Range(df) :
                        l.idx = r.idx /\ l.StationNewName = AsStr(r.StationNewName)

\* A file with the float 2.75 and the text "2.750", after a station was offered.
C8_Witness ==
    /\ pc = "resolve"
    /\ \E r \in Range(file) : IsComplete(r) /\ r.StationNewName = "f:2.75"
    /\ \E r \in Range(file) : IsComplete(r) /\ r.StationNewName = "s:2.750"
    /\ selected_station = "2.750"

\* C9 as stated: a row is dropped by the loader exactly when its Latitude is null.
C9_OnlyNullLatitudeDropped ==
    pc # "load" =>
        \A r \in Range(file) : (r.Latitude = NaN) <=> (r.idx \notin Idx(df))

\* C9 amended: a row is dropped exactly when its Latitude, Longitude or
\* station identifier is null or its identifier string is excluded; in
\* particular every row with null Latitude is dropped.
C9_DroppedRows ==
    pc # "load" =>
        \A r \in Range(file) :
            /\ r.Latitude = NaN => r.idx \notin Idx(df)
            /\ r.idx \in Idx(df) <=>
                  (IsComplete(r) /\ AsStr(r.StationNewName) \notin ExcludedStations)

\* A loaded file with a row without Latitude, a row without Longitude and a kept row.
C9_Witness ==
    /\ pc = "stations"
    /\ \E r \in Range(file) : r.Latitude = NaN
    /\ \E r \in Range(file) : r.Latitude # NaN /\ r.Longitude = NaN
    /\ df # <<>>

\* The curves of a figure as a set: the key and the index labels of the rows.
CurveSets(traces) ==
    {<<t.name, Range(t.index)>> : t \in {u \in Range(traces) : u.kind = "curve"}}

\* The curves of the "All" / "All" view of the selected station.
AllViewCurves ==
    LET rows == ApplyFilters(Concat(Combinations(station_df)), "All", "All").rows
    IN  {<<key, Idx(Group(rows, key))>> : key \in Range(GroupKeys(rows))}

\* C10: whatever periods are selected, the curves drawn are exactly the curves
\* of the "All" / "All" view whose pair the selection shows.
C10_SelectionShowsAllViewCurves ==
    (pc = "done" /\ selected_station # None /\ selected_water # None) =>
        CurveSets(fig) = {c \in AllViewCurves : Selected(<<c[1][1], c[1][2]>>)}

\* A specific selection that draws one curve of a station whose "All" view
\* has more, one of them for the same water period.
C10_Witness ==
    /\ Plotted
    /\ selected_water # "All"
    /\ selected_day # "All"
    /\ Len(Curves) = 1
    /\ \E c \in AllViewCurves : c[1][1] = selected_water /\ c[1][2] # selected_day
    /\ \E pair \in ConcretePairs :
          Cardinality({r.SheetID : r \in Range(Matching(pair[1], pair[2]))}) >= 2
====
